---- MODULE Spec2Model ----
(***************************************************************************)
(* Model of contrast_verification.py (TalkToBook): the WCAG contrast       *)
(* pipeline hex string -> channel tuple -> relative luminance -> contrast  *)
(* ratio -> verdict, and the report loop of main.                          *)
(*                                                                         *)
(* Python strings are sequences of one-character strings.  Python floats   *)
(* are IEEE-754 binary64 values, modelled exactly: a float is a record     *)
(* [s, m, e] standing for (-1)^s * m * 2^e with m a 53-bit natural number  *)
(* (or zero), and every arithmetic operation rounds its exact result to    *)
(* nearest, ties to even, as the hardware does.  Mantissas exceed TLC's    *)
(* integers, so naturals are kept as little-endian sequences of limbs.     *)
(***************************************************************************)
EXTENDS Integers, Sequences, FiniteSets, TLC

\* F(v) with v evaluated once: a LET whose definition TLC computes a single
\* time however often the body uses it
Bind(v, F(_)) == CHOOSE y \in {F(x) : x \in {v}} : TRUE

(***************************************************************************)
(* Arbitrary-precision naturals: little-endian limbs in 0..Base-1, no      *)
(* most-significant zero limb; zero is the empty sequence.                 *)
(***************************************************************************)
LimbBits == 15
Base == 2 ^ LimbBits
Limbs == Seq(Nat)

Pow2[n \in Nat] == IF n = 0 THEN 1 ELSE 2 * Pow2[n - 1]

BNorm[a \in Limbs] ==
  IF a = <<>> THEN <<>>
  ELSE IF a[Len(a)] = 0 THEN BNorm[SubSeq(a, 1, Len(a) - 1)] ELSE a

BFromNat[n \in Nat] == IF n = 0 THEN <<>> ELSE <<n % Base>> \o BFromNat[n \div Base]

BToNat[a \in Limbs] == IF a = <<>> THEN 0 ELSE a[1] + Base * BToNat[Tail(a)]

BAddC[a \in Limbs, b \in Limbs, c \in Nat] ==
  IF a = <<>> /\ b = <<>> THEN (IF c = 0 THEN <<>> ELSE <<c>>)
  ELSE LET x == IF a = <<>> THEN 0 ELSE a[1]
           y == IF b = <<>> THEN 0 ELSE b[1]
           t == x + y + c
       IN  <<t % Base>> \o BAddC[IF a = <<>> THEN <<>> ELSE Tail(a),
                                 IF b = <<>> THEN <<>> ELSE Tail(b),
                                 t \div Base]

BAdd[a \in Limbs, b \in Limbs] == BAddC[a, b, 0]

BSubC[a \in Limbs, b \in Limbs, c \in Nat] ==
  IF a = <<>> THEN <<>>
  ELSE LET y == IF b = <<>> THEN 0 ELSE b[1]
           t == a[1] - y - c
       IN  <<IF t < 0 THEN t + Base ELSE t>>
             \o BSubC[Tail(a), IF b = <<>> THEN <<>> ELSE Tail(b),
                      IF t < 0 THEN 1 ELSE 0]

\* a - b for a >= b
BSub[a \in Limbs, b \in Limbs] == BNorm[BSubC[a, b, 0]]

BCmpFrom[a \in Limbs, b \in Limbs, i \in Nat] ==
  IF i = 0 THEN 0
  ELSE IF a[i] < b[i] THEN -1
  ELSE IF a[i] > b[i] THEN 1
  ELSE BCmpFrom[a, b, i - 1]

\* -1, 0, 1 as a < b, a = b, a > b
BCmp[a \in Limbs, b \in Limbs] ==
  IF Len(a) < Len(b) THEN -1
  ELSE IF Len(a) > Len(b) THEN 1
  ELSE BCmpFrom[a, b, Len(a)]

BMulSmallC[a \in Limbs, k \in Nat, c \in Nat] ==
  IF a = <<>> THEN (IF c = 0 THEN <<>> ELSE <<c>>)
  ELSE LET t == a[1] * k + c
       IN  <<t % Base>> \o BMulSmallC[Tail(a), k, t \div Base]

\* a * k for 0 <= k < Base
BMulSmall[a \in Limbs, k \in Nat] == IF k = 0 THEN <<>> ELSE BMulSmallC[a, k, 0]

BMul[a \in Limbs, b \in Limbs] ==
  IF b = <<>> \/ a = <<>> THEN <<>>
  ELSE LET rest == BMul[a, Tail(b)]
       IN  BAdd[BMulSmall[a, b[1]], IF rest = <<>> THEN <<>> ELSE <<0>> \o rest]

\* a * 2^n
BShl[a \in Limbs, n \in Nat] ==
  IF a = <<>> THEN <<>>
  ELSE [i \in 1..(n \div LimbBits) |-> 0] \o BMulSmall[a, Pow2[n % LimbBits]]

BDivSmallFrom[a \in Limbs, k \in Nat, i \in Nat, r \in Nat] ==
  IF i = 0 THEN <<>>
  ELSE LET t == r * Base + a[i]
       IN  BDivSmallFrom[a, k, i - 1, t % k] \o <<t \div k>>

\* floor(a / 2^n)
BShr[a \in Limbs, n \in Nat] ==
  LET w == n \div LimbBits
      hi == IF w >= Len(a) THEN <<>> ELSE SubSeq(a, w + 1, Len(a))
  IN  BNorm[BDivSmallFrom[hi, Pow2[n % LimbBits], Len(hi), 0]]

BitLenNat[n \in Nat] == IF n = 0 THEN 0 ELSE 1 + BitLenNat[n \div 2]

BBitLen[a \in Limbs] == IF a = <<>> THEN 0 ELSE LimbBits * (Len(a) - 1) + BitLenNat[a[Len(a)]]

BIsOdd[a \in Limbs] == a # <<>> /\ a[1] % 2 = 1

\* the largest d in 0..Base-1 with d * b <= x, for x < Base * b, found bit
\* by bit; k is the weight of the bit tried next
BDigit[x \in Limbs, b \in Limbs, d \in Nat, k \in Nat] ==
  IF k = 0 THEN d
  ELSE IF BCmp[BMulSmall[b, d + k], x] <= 0 THEN BDigit[x, b, d + k, k \div 2]
  ELSE BDigit[x, b, d, k \div 2]

\* floor(r * Base^n / b), as n limbs, and whether the division left a
\* remainder, by long division; r < b
BDivLimbs[r \in Limbs, b \in Limbs, n \in Nat] ==
  IF n = 0 THEN [q |-> <<>>, inexact |-> r # <<>>]
  ELSE Bind(IF r = <<>> THEN <<>> ELSE <<0>> \o r, LAMBDA x :
       Bind(BDigit[x, b, 0, Base \div 2], LAMBDA d :
       Bind(BDivLimbs[BSub[x, BMulSmall[b, d]], b, n - 1], LAMBDA rest :
         [q |-> rest.q \o <<d>>, inexact |-> rest.inexact])))

(***************************************************************************)
(* Python float: IEEE-754 binary64, round to nearest, ties to even.        *)
(* [s |-> 0 or 1, m |-> significand, e |-> exponent], value                *)
(* (-1)^s * m * 2^e; m has exactly Precision bits, or the float is zero.   *)
(* The values of this program lie between 1e-5 and 255 in magnitude, far   *)
(* from the format's exponent limits, so overflow, subnormals, infinities  *)
(* and NaN do not arise and are not represented.                           *)
(***************************************************************************)
Precision == 53

Float == [s : {0, 1}, m : Limbs, e : Int]

FZero == [s |-> 0, m |-> <<>>, e |-> 0]

IsZero[a \in Float] == a.m = <<>>

\* q or q + 1: the integer nearest to an exact value between them, ties to
\* the even one; c compares the part above q with one half, sticky tells
\* that the exact value is slightly above what c compared
RoundHalfEven[q \in Limbs, c \in Int, sticky \in BOOLEAN] ==
  IF c > 0 \/ (c = 0 /\ (sticky \/ BIsOdd[q])) THEN BAdd[q, <<1>>] ELSE q

\* n / 2^k rounded to the nearest integer, q its floor, k > 0
BNearest[n \in Limbs, q \in Limbs, k \in Nat, sticky \in BOOLEAN] ==
  RoundHalfEven[q, BCmp[BSub[n, BShl[q, k]], BShl[<<1>>, k - 1]], sticky]

BRoundShr[n \in Limbs, k \in Nat, sticky \in BOOLEAN] == BNearest[n, BShr[n, k], k, sticky]

\* (-1)^s * q * 2^e for q of Precision bits, or of one bit more after a
\* rounding that carried (q is a power of two then)
FPack[s \in {0, 1}, q \in Limbs, e \in Int] ==
  IF BBitLen[q] > Precision THEN [s |-> s, m |-> BShr[q, 1], e |-> e + 1]
  ELSE [s |-> s, m |-> q, e |-> e]

\* FRound for n of nb bits
FRoundBits[s \in {0, 1}, n \in Limbs, e \in Int, sticky \in BOOLEAN, nb \in Nat] ==
  IF nb <= Precision
  THEN [s |-> s, m |-> BShl[n, Precision - nb], e |-> e - (Precision - nb)]
  ELSE FPack[s, BRoundShr[n, nb - Precision, sticky], e + (nb - Precision)]

\* (-1)^s * n * 2^e rounded to Precision bits; sticky tells that the exact
\* value is slightly above n * 2^e (a truncated quotient)
FRound[s \in {0, 1}, n \in Limbs, e \in Int, sticky \in BOOLEAN] ==
  IF n = <<>> THEN FZero ELSE FRoundBits[s, n, e, sticky, BBitLen[n]]

\* float(n) for a Python int n
FromInt[n \in Int] ==
  FRound[IF n < 0 THEN 1 ELSE 0, BFromNat[IF n < 0 THEN -n ELSE n], 0, FALSE]

\* a * b
FMul[a \in Float, b \in Float] ==
  IF IsZero[a] \/ IsZero[b] THEN FZero
  ELSE FRound[(a.s + b.s) % 2, BMul[a.m, b.m], a.e + b.e, FALSE]

\* the limbs of quotient computed below the leading bit: enough for
\* Precision bits and two more to round on
DivLimbs == (Precision + 2) \div LimbBits + 1

\* what BDivLimbs returns
DivResult == [q : Limbs, inexact : BOOLEAN]

\* the quotient's leading bit and the limbs d below it, rounded
FDivRound[s \in {0, 1}, lead \in {0, 1}, d \in DivResult, e \in Int] ==
  FRound[s, BNorm[d.q \o <<lead>>], e, d.inexact]

\* a / b with the leading bit of the significands' quotient: 1 when
\* a.m >= b.m
FDivLead[a \in Float, b \in Float, lead \in {0, 1}] ==
  FDivRound[(a.s + b.s) % 2, lead,
            BDivLimbs[IF lead = 1 THEN BSub[a.m, b.m] ELSE a.m, b.m, DivLimbs],
            a.e - b.e - DivLimbs * LimbBits]

\* a / b, b nonzero
FDiv[a \in Float, b \in Float] ==
  IF IsZero[a] THEN FZero
  ELSE FDivLead[a, b, IF BCmp[a.m, b.m] >= 0 THEN 1 ELSE 0]

\* (-1)^sa * x * 2^e + (-1)^sb * y * 2^e, ge telling that x >= y
FAddMag[sa \in {0, 1}, x \in Limbs, sb \in {0, 1}, y \in Limbs, e \in Int, ge \in BOOLEAN] ==
  FRound[IF sa = sb \/ ge THEN sa ELSE sb,
         IF sa = sb THEN BAdd[x, y] ELSE IF ge THEN BSub[x, y] ELSE BSub[y, x],
         e, FALSE]

FAddAligned[sa \in {0, 1}, x \in Limbs, sb \in {0, 1}, y \in Limbs, e \in Int] ==
  FAddMag[sa, x, sb, y, e, BCmp[x, y] >= 0]

\* a + b with both significands brought to the exponent e, the smaller one
FAddExp[a \in Float, b \in Float, e \in Int] ==
  FAddAligned[a.s, BShl[a.m, a.e - e], b.s, BShl[b.m, b.e - e], e]

\* a + b
FAdd[a \in Float, b \in Float] ==
  IF IsZero[a] THEN b
  ELSE IF IsZero[b] THEN a
  ELSE FAddExp[a, b, IF a.e < b.e THEN a.e ELSE b.e]

FSign[a \in Float] == IF IsZero[a] THEN 0 ELSE IF a.s = 1 THEN -1 ELSE 1

\* -1, 0, 1 as a < b, a = b, a > b
FCmp[a \in Float, b \in Float] ==
  IF FSign[a] # FSign[b] THEN (IF FSign[a] < FSign[b] THEN -1 ELSE 1)
  ELSE IF IsZero[a] THEN 0
  ELSE LET mag == IF a.e # b.e THEN (IF a.e < b.e THEN -1 ELSE 1)
                  ELSE BCmp[a.m, b.m]
       IN  mag * FSign[a]

FLe[a \in Float, b \in Float] == FCmp[a, b] <= 0
FLt[a \in Float, b \in Float] == FCmp[a, b] < 0
FGe[a \in Float, b \in Float] == FCmp[a, b] >= 0
FGt[a \in Float, b \in Float] == FCmp[a, b] > 0

\* Python's max(a, b) and min(a, b): the first argument unless the second
\* is strictly larger (smaller)
FMax[a \in Float, b \in Float] == IF FGt[b, a] THEN b ELSE a
FMin[a \in Float, b \in Float] == IF FLt[b, a] THEN b ELSE a

\* A decimal literal num/den (den a power of ten): Python reads it as the
\* float nearest to the decimal, which is the correctly rounded quotient of
\* the two integers.
Dec[num \in Nat, den \in Nat] == FDiv[FromInt[num], FromInt[den]]

\* format(a, ".2f") for 0 <= a < 10000, as the number of hundredths printed:
\* the exact binary value rounded to two decimals, ties to even
Fmt2[a \in Float] ==
  IF IsZero[a] THEN 0
  ELSE IF a.e >= 0 THEN BToNat[BShl[BMulSmall[a.m, 100], a.e]]
  ELSE BToNat[BRoundShr[BMulSmall[a.m, 100], -a.e, FALSE]]

(***************************************************************************)
(* x ** 2.4 is evaluated by the C library's pow.  transform passes it only *)
(* the arguments x = (c / 255.0 + 0.055) / 1.055 for a channel c in        *)
(* 11..255; PowTable lists the result for each of them in order of c, as   *)
(* <<hi, lo, e>> with significand hi * 2^30 + lo.                          *)
(***************************************************************************)
PowTable ==
  <<
     <<7186630, 891657369, -61>>, <<7895239, 386701789, -61>>, <<4321506, 1065714601, -60>>,
     <<4715274, 1055745057, -60>>, <<5129214, 798351993, -60>>, <<5563611, 209439016, -60>>,
     <<6018743, 458279189, -60>>, <<6494885, 3257697, -60>>, <<6992304, 263811921, -60>>,
     <<7511264, 530538539, -60>>, <<8052024, 369719504, -60>>, <<4307418, 1004180152, -59>>,
     <<4599977, 445284420, -59>>, <<4903810, 457116387, -59>>, <<5219038, 868084069, -59>>,
     <<5545781, 548375429, -59>>, <<5884155, 713897737, -59>>, <<6234276, 708687539, -59>>,
     <<6596258, 224900385, -59>>, <<6970212, 444602045, -59>>, <<7356249, 882506422, -59>>,
     <<7754479, 519926798, -59>>, <<8165009, 9013311, -59>>, <<4293972, 326289044, -58>>,
     <<4511695, 616746210, -58>>, <<4735726, 105034098, -58>>, <<4966115, 28198589, -58>>,
     <<5202912, 968334347, -58>>, <<5446169, 725524388, -58>>, <<5695934, 779698963, -58>>,
     <<5952256, 940387822, -58>>, <<6215184, 438039468, -58>>, <<6484765, 88255963, -58>>,
     <<6761046, 160286901, -58>>, <<7044074, 392282144, -58>>, <<7333896, 5864409, -58>>,
     <<7630556, 941288479, -58>>, <<7934102, 354581450, -58>>, <<8244577, 293986741, -58>>,
     <<4281013, 98003064, -57>>, <<4443246, 596049702, -57>>, <<4609010, 912487547, -57>>,
     <<4778327, 640312874, -57>>, <<4951218, 236227857, -57>>, <<5127703, 1025632975, -57>>,
     <<5307805, 912462079, -57>>, <<5491544, 826255568, -57>>, <<5678941, 431644368, -57>>,
     <<5870016, 280122606, -57>>, <<6064789, 740440558, -57>>, <<6263281, 928850983, -57>>,
     <<6465512, 860441351, -57>>, <<6671502, 379107788, -57>>, <<6881270, 234886025, -57>>,
     <<7094835, 1013678012, -57>>, <<7312218, 993121570, -57>>, <<7533438, 440801010, -57>>,
     <<7758513, 543643699, -57>>, <<7987463, 189732575, -57>>, <<8220306, 266215496, -57>>,
     <<4228530, 757335909, -56>>, <<4348873, 656324629, -56>>, <<4471191, 59396498, -56>>,
     <<4595492, 200850658, -56>>, <<4721786, 99997402, -56>>, <<4850081, 857348434, -56>>,
     <<4980388, 287095115, -56>>, <<5112714, 434454418, -56>>, <<5247069, 60596495, -56>>,
     <<5383461, 12442619, -56>>, <<5521899, 2498137, -56>>, <<5662391, 757365420, -56>>,
     <<5804947, 797519572, -56>>, <<5949575, 733249918, -56>>, <<6096284, 44382673, -56>>,
     <<6245081, 302429479, -56>>, <<6395975, 876519018, -56>>, <<6548976, 8014448, -56>>,
     <<6704090, 180075657, -56>>, <<6861326, 602297965, -56>>, <<7020693, 432748100, -56>>,
     <<7182198, 926238212, -56>>, <<7345851, 66387550, -56>>, <<7511658, 82567216, -56>>,
     <<7679627, 1008182949, -56>>, <<7849768, 681391288, -56>>, <<8022088, 114507779, -56>>,
     <<8196594, 273464142, -56>>, <<8373294, 1004733122, -56>>, <<4276098, 1054860785, -55>>,
     <<4366655, 598961551, -55>>, <<4458321, 64995439, -55>>, <<4551099, 361689055, -55>>,
     <<4644994, 228982512, -55>>, <<4740009, 533287242, -55>>, <<4836148, 1046544675, -55>>,
     <<4933416, 446504187, -55>>, <<5031815, 611962357, -55>>, <<5131350, 180578126, -55>>,
     <<5232023, 991584213, -55>>, <<5333840, 569849311, -55>>, <<5436803, 716062323, -55>>,
     <<5540916, 1064525876, -55>>, <<5646184, 157137569, -55>>, <<5752608, 812333628, -55>>,
     <<5860194, 461642283, -55>>, <<5968944, 813585343, -55>>, <<6078863, 337706112, -55>>,
     <<6189953, 707236611, -55>>, <<6302219, 356858717, -55>>, <<6415663, 925363007, -55>>,
     <<6530290, 813401721, -55>>, <<6646103, 552397835, -55>>, <<6763105, 657257598, -55>>,
     <<6881300, 552821148, -55>>, <<7000691, 721534979, -55>>, <<7121282, 556153610, -55>>,
     <<7243076, 507405101, -55>>, <<7366076, 1010427759, -55>>, <<7490287, 337461758, -55>>,
     <<7615710, 1040472145, -55>>, <<7742351, 287641448, -55>>, <<7870211, 600953824, -55>>,
     <<7999295, 192681712, -55>>, <<8129605, 481738707, -55>>, <<8261145, 725127757, -55>>,
     <<4196959, 619660627, -54>>, <<4263964, 626464634, -54>>, <<4331589, 527166266, -54>>,
     <<4399835, 995914590, -54>>, <<4468705, 552534938, -54>>, <<4538199, 931308966, -54>>,
     <<4608320, 638593431, -54>>, <<4679069, 321597873, -54>>, <<4750447, 620968423, -54>>,
     <<4822457, 23370467, -54>>, <<4895099, 230263032, -54>>, <<4968375, 789253848, -54>>,
     <<5042288, 167904312, -54>>, <<5116838, 48758961, -54>>, <<5192026, 1034439297, -54>>,
     <<5267856, 500220348, -54>>, <<5344328, 110282671, -54>>, <<5421443, 449061533, -54>>,
     <<5499203, 1021304341, -54>>, <<5577611, 252127145, -54>>, <<5656666, 855779416, -54>>,
     <<5736372, 172022443, -54>>, <<5816728, 903601531, -54>>, <<5897738, 378880930, -54>>,
     <<5979402, 215572601, -54>>, <<6061721, 952078685, -54>>, <<6144698, 973800490, -54>>,
     <<6228334, 808155845, -54>>, <<6312630, 977144793, -54>>, <<6397588, 923656369, -54>>,
     <<6483210, 85258343, -54>>, <<6569496, 41728078, -54>>, <<6656448, 220131761, -54>>,
     <<6744068, 42353953, -54>>, <<6832356, 1072626429, -54>>, <<6921316, 575121854, -54>>,
     <<7010948, 103932309, -54>>, <<7101253, 134403530, -54>>, <<7192233, 63177659, -54>>,
     <<7283889, 355719045, -54>>, <<7376223, 398872157, -54>>, <<7469236, 648386270, -54>>,
     <<7562930, 481472242, -54>>, <<7657306, 344326085, -54>>, <<7752365, 678426498, -54>>,
     <<7848109, 846831885, -54>>, <<7944540, 207960517, -54>>, <<8041658, 263111974, -54>>,
     <<8139465, 361537188, -54>>, <<8237962, 921700739, -54>>, <<8337152, 210091714, -54>>,
     <<4218517, 391855282, -53>>, <<4268805, 986955851, -53>>, <<4319442, 480090167, -53>>,
     <<4370427, 680050768, -53>>, <<4421762, 172246216, -53>>, <<4473446, 761168875, -53>>,
     <<4525481, 1027960559, -53>>, <<4577868, 625396242, -53>>, <<4630607, 277900250, -53>>,
     <<4683698, 707820421, -53>>, <<4737143, 487960270, -53>>, <<4790942, 336561873, -53>>,
     <<4845095, 969837643, -53>>, <<4899604, 954501895, -53>>, <<4954469, 1002753184, -53>>,
     <<5009691, 751063693, -53>>, <<5065270, 907677555, -53>>, <<5121208, 31399884, -53>>,
     <<5177503, 974062059, -53>>, <<5234159, 143117627, -53>>, <<5291174, 386558200, -53>>,
     <<5348550, 255509037, -53>>, <<5406287, 446693651, -53>>, <<5464386, 581221857, -53>>,
     <<5522848, 278344933, -53>>, <<5581673, 229210651, -53>>, <<5640862, 49392675, -53>>,
     <<5700415, 426387096, -53>>, <<5760333, 972141549, -53>>, <<5820618, 223067799, -53>>,
     <<5881268, 1008763343, -53>>, <<5942286, 788347306, -53>>, <<6003672, 240407217, -53>>,
     <<6065426, 41785590, -53>>, <<6127548, 867591835, -53>>, <<6190041, 169988578, -53>>,
     <<6252903, 768137904, -53>>, <<6316137, 110794631, -53>>, <<6379741, 1013735972, -53>>,
     <<6443718, 922354551, -53>>, <<6508068, 501604169, -53>>, <<6572791, 414785349, -53>>,
     <<6637888, 249814437, -53>>, <<6703359, 666718055, -53>>, <<6769206, 176418300, -53>>,
     <<6835428, 509452447, -53>>, <<6902027, 173532462, -53>>, <<6969002, 896006287, -53>>,
     <<7036356, 107675330, -53>>, <<7104087, 606481001, -53>>, <<7172197, 893838328, -53>>,
     <<7240687, 543355014, -53>>, <<7309557, 200841243, -53>>, <<7378807, 510577595, -53>>,
     <<7448438, 1041582833, -53>>, <<7518452, 287623435, -53>>, <<7588847, 1035932145, -53>>,
     <<7659626, 703540866, -53>>, <<7730788, 1000966356, -53>>, <<7802335, 416026581, -53>>,
     <<7874266, 656300710, -53>>, <<7946583, 206687156, -53>>, <<8019285, 771863377, -53>>,
     <<8092374, 833843734, -53>>, <<8165850, 1020697310, -53>>, <<8239714, 885331046, -53>>,
     <<8313966, 1052981938, -53>>, <<4194304, 0, -52>>
  >>

PowFirst == 11

\* the float of a row of PowTable
PowRow[t \in Seq(Int)] ==
  [s |-> 0, m |-> BAdd[BShl[BFromNat[t[1]], 30], BFromNat[t[2]]], e |-> t[3]]

\* x ** 2.4 for the x that transform computes from channel c
Pow24[c \in Nat] == PowRow[PowTable[c - PowFirst + 1]]

(***************************************************************************)
(* Python str and int(str, 16)                                             *)
(***************************************************************************)
LowerDigits == <<"0", "1", "2", "3", "4", "5", "6", "7", "8", "9",
                 "a", "b", "c", "d", "e", "f">>
UpperDigits == <<"0", "1", "2", "3", "4", "5", "6", "7", "8", "9",
                 "A", "B", "C", "D", "E", "F">>

Str == Seq(STRING)

IsHexDigit[ch \in STRING] == \E i \in 1..16 : LowerDigits[i] = ch \/ UpperDigits[i] = ch

HexVal[ch \in STRING] ==
  (CHOOSE i \in 1..16 : LowerDigits[i] = ch \/ UpperDigits[i] = ch) - 1

IsSpace[ch \in STRING] == ch = " "

\* the exception int() raises on a malformed literal
ValueError == [ok |-> FALSE, err |-> "ValueError"]

Return(v) == [ok |-> TRUE, val |-> v]

\* what the caller of a function sees of its run r: the value returned, or
\* the exception
Outcome(r) == IF r.ok THEN Return(r.val) ELSE [ok |-> FALSE, err |-> r.err]

\* s.lstrip(ch): every leading ch removed
lstrip[s \in Str, ch \in STRING] ==
  IF s # <<>> /\ s[1] = ch THEN lstrip[Tail(s), ch] ELSE s

\* s[i:j] for 0 <= i <= j: the bounds are clamped to the string
Slice[s \in Str, i \in Nat, j \in Nat] ==
  SubSeq(s, (IF i < Len(s) THEN i ELSE Len(s)) + 1, IF j < Len(s) THEN j ELSE Len(s))

StripLeft[s \in Str] == IF s # <<>> /\ IsSpace[s[1]] THEN StripLeft[Tail(s)] ELSE s

StripRight[s \in Str] ==
  IF s # <<>> /\ IsSpace[s[Len(s)]] THEN StripRight[SubSeq(s, 1, Len(s) - 1)] ELSE s

\* the digit part of an integer literal: hex digits, single underscores
\* between them
ValidDigits[w \in Str] ==
  /\ w # <<>>
  /\ IsHexDigit[w[1]] /\ IsHexDigit[w[Len(w)]]
  /\ \A i \in 1..Len(w) : IsHexDigit[w[i]] \/ w[i] = "_"
  /\ \A i \in 1..(Len(w) - 1) : ~(w[i] = "_" /\ w[i + 1] = "_")

DigitsValue[w \in Str, acc \in Nat] ==
  IF w = <<>> THEN acc
  ELSE IF w[1] = "_" THEN DigitsValue[Tail(w), acc]
  ELSE DigitsValue[Tail(w), 16 * acc + HexVal[w[1]]]

\* t without its sign
Unsigned[t \in Str] == IF t # <<>> /\ t[1] \in {"+", "-"} THEN Tail(t) ELSE t

\* u without a base prefix 0x or 0X, and one underscore after it
Unprefixed[u \in Str] ==
  LET pre == Len(u) >= 2 /\ u[1] = "0" /\ u[2] \in {"x", "X"}
  IN  IF ~pre THEN u
      ELSE IF Len(u) >= 3 /\ u[3] = "_" THEN SubSeq(u, 4, Len(u))
      ELSE SubSeq(u, 3, Len(u))

\* the integer of the stripped literal t: an optional sign, an optional
\* prefix, then the digits
IntOfStripped[t \in Str] ==
  IF ValidDigits[Unprefixed[Unsigned[t]]]
  THEN Return((IF t[1] = "-" THEN -1 ELSE 1) * DigitsValue[Unprefixed[Unsigned[t]], 0])
  ELSE ValueError

\* int(s, 16): surrounding whitespace is ignored
int16[s \in Str] == IntOfStripped[StripRight[StripLeft[s]]]

(***************************************************************************)
(* The core functions.  Each returns Return(value), or the exception that  *)
(* left it.                                                                *)
(***************************************************************************)
hex_to_rgb(hex_color) ==
  Bind(lstrip[hex_color, "#"], LAMBDA h :
    Bind([i \in {0, 2, 4} |-> int16[Slice[h, i, i + 2]]], LAMBDA ch :
      IF ~ch[0].ok THEN ch[0]
      ELSE IF ~ch[2].ok THEN ch[2]
      ELSE IF ~ch[4].ok THEN ch[4]
      ELSE Return(<<ch[0].val, ch[2].val, ch[4].val>>)))

F255     == FromInt[255]
F12_92   == Dec[1292, 100]
F0_03928 == Dec[3928, 100000]
F0_055   == Dec[55, 1000]
F1_055   == Dec[1055, 1000]
F0_2126  == Dec[2126, 10000]
F0_7152  == Dec[7152, 10000]
F0_0722  == Dec[722, 10000]
F0_05    == Dec[5, 100]

\* transform(c) of luminance, c a channel as hex_to_rgb returns it
transform(c) ==
  Bind(FDiv[FromInt[c], F255], LAMBDA x :
    IF FLe[x, F0_03928] THEN FDiv[x, F12_92] ELSE Pow24[c])

\* luminance with the digits of the green coefficient transposed
luminance_green_typo(rgb) ==
  LET r == transform(rgb[1])
      g == transform(rgb[2])
      b == transform(rgb[3])
  IN  FAdd[FAdd[FMul[F0_2126, r], FMul[Dec[7512, 10000], g]], FMul[F0_0722, b]]

\* luminance with a digit of the blue coefficient doubled
luminance_blue_typo(rgb) ==
  LET r == transform(rgb[1])
      g == transform(rgb[2])
      b == transform(rgb[3])
  IN  FAdd[FAdd[FMul[F0_2126, r], FMul[F0_7152, g]], FMul[Dec[772, 10000], b]]

luminance(rgb) ==
  LET r == transform(rgb[1])
      g == transform(rgb[2])
      b == transform(rgb[3])
  IN  FAdd[FAdd[FMul[F0_2126, r], FMul[F0_7152, g]], FMul[F0_0722, b]]

\* contrast_ratio's locals had it divided in argument order, without max
\* and min
ratio_frame_unordered(lum1, lum2) ==
  Bind(<<lum1, lum2>>, LAMBDA lum :
    [lum1 |-> lum[1], lum2 |-> lum[2], lighter |-> lum[1], darker |-> lum[2],
     ratio |-> FDiv[FAdd[lum[1], F0_05], FAdd[lum[2], F0_05]]])

\* contrast_ratio's locals had it taken min for lighter and max for darker
ratio_frame_swapped(lum1, lum2) ==
  Bind(<<lum1, lum2>>, LAMBDA lum :
    LET lighter == FMin[lum[1], lum[2]]
        darker  == FMax[lum[1], lum[2]]
    IN  [lum1 |-> lum[1], lum2 |-> lum[2], lighter |-> lighter, darker |-> darker,
         ratio |-> FDiv[FAdd[lighter, F0_05], FAdd[darker, F0_05]]])

\* contrast_ratio's locals had it added 0.055, transform's offset, to darker
ratio_frame_offset(lum1, lum2) ==
  Bind(<<lum1, lum2>>, LAMBDA lum :
    LET lighter == FMax[lum[1], lum[2]]
        darker  == FMin[lum[1], lum[2]]
    IN  [lum1 |-> lum[1], lum2 |-> lum[2], lighter |-> lighter, darker |-> darker,
         ratio |-> FDiv[FAdd[lighter, F0_05], FAdd[darker, F0_055]]])

\* the locals of contrast_ratio at its return statement
ratio_frame(lum1, lum2) ==
  Bind(<<lum1, lum2>>, LAMBDA lum :
    LET lighter == FMax[lum[1], lum[2]]
        darker  == FMin[lum[1], lum[2]]
    IN  [lum1 |-> lum[1], lum2 |-> lum[2], lighter |-> lighter, darker |-> darker,
         ratio |-> FDiv[FAdd[lighter, F0_05], FAdd[darker, F0_05]]])

\* contrast_ratio with its locals: [ok, val, frame], or the exception of
\* the first hex_to_rgb that raised (luminance is total and has no effect,
\* so it makes no difference that luminance(rgb1) is computed only after
\* hex_to_rgb(color2) has returned)
contrast_run(color1, color2) ==
  Bind(hex_to_rgb(color1), LAMBDA rgb1 :
    IF ~rgb1.ok THEN rgb1
    ELSE Bind(hex_to_rgb(color2), LAMBDA rgb2 :
      IF ~rgb2.ok THEN rgb2
      ELSE Bind(ratio_frame(luminance(rgb1.val), luminance(rgb2.val)),
                LAMBDA f : [ok |-> TRUE, val |-> f.ratio, frame |-> f])))

contrast_ratio(color1, color2) == Bind(contrast_run(color1, color2), Outcome)

\* the line check_compliance prints: the description, the ratio to two
\* decimals (in hundredths), the PASS or FAIL marker, the threshold
ResultLine(description, ratio, compliant, min_ratio) ==
  [kind |-> "result", description |-> description, ratio |-> Fmt2[ratio],
   status |-> IF compliant THEN "PASS" ELSE "FAIL", min |-> min_ratio]

TextLine(t) == [kind |-> "text", text |-> t]

\* check_compliance had it compared with > in place of >=
check_compliance_strict(foreground, background, min_ratio, description) ==
  Bind(contrast_ratio(foreground, background), LAMBDA ratio :
    IF ~ratio.ok THEN [ok |-> FALSE, err |-> ratio.err, printed |-> <<>>]
    ELSE LET compliant == FGt[ratio.val, min_ratio]
         IN  [ok |-> TRUE, val |-> compliant, ratio |-> ratio.val,
              printed |-> <<ResultLine(description, ratio.val, compliant, min_ratio)>>])

\* check_compliance had it caught the exception and reported the pair as
\* failing, with a ratio of zero
check_compliance_catching(foreground, background, min_ratio, description) ==
  Bind(contrast_ratio(foreground, background), LAMBDA ratio :
    IF ~ratio.ok
    THEN [ok |-> TRUE, val |-> FALSE, ratio |-> FZero,
          printed |-> <<ResultLine(description, FZero, FALSE, min_ratio)>>]
    ELSE LET compliant == FGe[ratio.val, min_ratio]
         IN  [ok |-> TRUE, val |-> compliant, ratio |-> ratio.val,
              printed |-> <<ResultLine(description, ratio.val, compliant, min_ratio)>>])

\* check_compliance: the verdict it returns, its local ratio and the lines
\* it printed, or the exception contrast_ratio raised (nothing printed)
check_compliance(foreground, background, min_ratio, description) ==
  Bind(contrast_ratio(foreground, background), LAMBDA ratio :
    IF ~ratio.ok THEN [ok |-> FALSE, err |-> ratio.err, printed |-> <<>>]
    ELSE LET compliant == FGe[ratio.val, min_ratio]
         IN  [ok |-> TRUE, val |-> compliant, ratio |-> ratio.val,
              printed |-> <<ResultLine(description, ratio.val, compliant, min_ratio)>>])

\* the defaults of check_compliance's optional parameters
DefaultMinRatio == Dec[45, 10]
DefaultDescription == ""

F4_5 == Dec[45, 10]
F3_0 == FromInt[3]
F1_0 == FromInt[1]
F21_0 == FromInt[21]

(***************************************************************************)
(* main: the palette, the ordered checks, the report                       *)
(***************************************************************************)
colors ==
  [Primary        |-> <<"#", "1", "5", "6", "5", "C", "0">>,
   Secondary      |-> <<"#", "2", "E", "7", "D", "3", "2">>,
   Background     |-> <<"#", "F", "F", "F", "F", "F", "F">>,
   Surface        |-> <<"#", "F", "A", "F", "A", "F", "A">>,
   OnPrimary      |-> <<"#", "F", "F", "F", "F", "F", "F">>,
   OnSecondary    |-> <<"#", "F", "F", "F", "F", "F", "F">>,
   OnBackground   |-> <<"#", "2", "1", "2", "1", "2", "1">>,
   OnSurface      |-> <<"#", "2", "1", "2", "1", "2", "1">>,
   Error          |-> <<"#", "D", "3", "2", "F", "2", "F">>,
   OnError        |-> <<"#", "F", "F", "F", "F", "F", "F">>,
   FocusIndicator |-> <<"#", "F", "F", "6", "F", "0", "0">>,
   ButtonPressed  |-> <<"#", "0", "2", "7", "7", "B", "D">>,
   Divider        |-> <<"#", "B", "D", "B", "D", "B", "D">>,
   Disabled       |-> <<"#", "9", "E", "9", "E", "9", "E">>]

MainChecks ==
  <<[fg |-> "Primary", bg |-> "Background", min |-> F4_5,
     description |-> "Primary on Background"],
    [fg |-> "OnPrimary", bg |-> "Primary", min |-> F4_5,
     description |-> "OnPrimary on Primary"],
    [fg |-> "Secondary", bg |-> "Background", min |-> F4_5,
     description |-> "Secondary on Background"],
    [fg |-> "OnSecondary", bg |-> "Secondary", min |-> F4_5,
     description |-> "OnSecondary on Secondary"],
    [fg |-> "OnBackground", bg |-> "Background", min |-> F4_5,
     description |-> "OnBackground on Background"],
    [fg |-> "OnSurface", bg |-> "Surface", min |-> F4_5,
     description |-> "OnSurface on Surface"],
    [fg |-> "Error", bg |-> "Background", min |-> F4_5,
     description |-> "Error on Background"],
    [fg |-> "OnError", bg |-> "Error", min |-> F4_5,
     description |-> "OnError on Error"],
    [fg |-> "FocusIndicator", bg |-> "Background", min |-> F3_0,
     description |-> "Focus Indicator vs Background"],
    [fg |-> "OnPrimary", bg |-> "ButtonPressed", min |-> F4_5,
     description |-> "Text vs Pressed Button"],
    [fg |-> "Divider", bg |-> "Background", min |-> F3_0,
     description |-> "Divider vs Background"],
    [fg |-> "Disabled", bg |-> "Background", min |-> F4_5,
     description |-> "Disabled Text vs Background"]>>

\* the lines main prints before its first check
MainHeader ==
  <<TextLine("=== TalkToBook WCAG AA Contrast Verification ==="), TextLine(""),
    TextLine("WCAG AA Compliance Results:"), TextLine("==========================")>>

\* the lines main prints between two checks, ahead of check number i
SectionBefore(i) ==
  IF i = 9
  THEN <<TextLine(""), TextLine("Additional Accessibility Checks:"),
         TextLine("===============================")>>
  ELSE <<>>

PassedBanner ==
  <<TextLine("ALL ACCESSIBILITY CHECKS PASSED!"),
    TextLine("The TalkToBook app meets WCAG AA standards for contrast ratios.")>>

FailedBanner ==
  <<TextLine("Some accessibility checks failed."),
    TextLine("Please review and adjust colors that don't meet WCAG AA standards.")>>

Reference ==
  <<TextLine(""), TextLine("WCAG Standards Reference:"),
    TextLine("- Normal text: 4.5:1 minimum contrast ratio"),
    TextLine("- Large text (18pt+): 3:1 minimum contrast ratio"),
    TextLine("- Non-text elements: 3:1 minimum contrast ratio"),
    TextLine("- Focus indicators: 3:1 minimum contrast ratio")>>

\* the lines main prints after its last check
MainFooter(all_compliant) ==
  <<TextLine("")>> \o (IF all_compliant THEN PassedBanner ELSE FailedBanner) \o Reference

\* main's statement had it been "all_compliant = all_compliant and
\* check_compliance(...)": the check is skipped once a check has failed
main_check_short_circuit(f) ==
  Bind(MainChecks[f.i + 1], LAMBDA k :
    IF ~f.all_compliant
    THEN [ok |-> TRUE, frame |-> [all_compliant |-> FALSE, i |-> f.i + 1],
          printed |-> SectionBefore(f.i + 1)]
    ELSE Bind(check_compliance(colors[k.fg], colors[k.bg], k.min, k.description),
              LAMBDA r :
                IF r.ok
                THEN [ok |-> TRUE,
                      frame |-> [all_compliant |-> r.val, i |-> f.i + 1],
                      printed |-> SectionBefore(f.i + 1) \o r.printed]
                ELSE [ok |-> FALSE, err |-> r.err, printed |-> SectionBefore(f.i + 1)]))

\* one statement "all_compliant &= check_compliance(...)" of main: check
\* number i + 1 run from the locals f = [all_compliant, i]; the new locals,
\* the lines printed, and the exception if the check raised one
main_check(f) ==
  Bind(MainChecks[f.i + 1], LAMBDA k :
    Bind(check_compliance(colors[k.fg], colors[k.bg], k.min, k.description),
         LAMBDA r :
           IF r.ok
           THEN [ok |-> TRUE,
                 frame |-> [all_compliant |-> f.all_compliant /\ r.val, i |-> f.i + 1],
                 printed |-> SectionBefore(f.i + 1) \o r.printed]
           ELSE [ok |-> FALSE, err |-> r.err, printed |-> SectionBefore(f.i + 1)]))

(***************************************************************************)
(* The state: one invocation of one of the program's functions.            *)
(*   pc        "ready", "main" (main between two checks), "returned",      *)
(*             "raised"                                                    *)
(*   function  the function invoked, "none" before the invocation          *)
(*   args      its arguments                                               *)
(*   frame     the invoked function's local variables                      *)
(*   result    the value returned, or the exception raised                 *)
(*   out       the lines printed so far                                    *)
(***************************************************************************)
VARIABLES pc, function, args, frame, result, out

vars == <<pc, function, args, frame, result, out>>

NoFrame == [fn |-> "none"]
NoResult == [ok |-> FALSE, err |-> "none"]

Init ==
  /\ pc = "ready"
  /\ function = "none"
  /\ args = <<>>
  /\ frame = NoFrame
  /\ result = NoResult
  /\ out = <<>>

\* the colours the functions are called with: the palette of main, black,
\* the same digits in lower case and without '#', the channels on both
\* sides of transform's breakpoint, a near-white, and malformed strings
ColorList ==
  <<<<"#", "0", "0", "0", "0", "0", "0">>,
    <<"#", "F", "F", "F", "F", "F", "F">>,
    <<"#", "1", "5", "6", "5", "C", "0">>,
    <<"#", "2", "E", "7", "D", "3", "2">>,
    <<"#", "F", "A", "F", "A", "F", "A">>,
    <<"#", "2", "1", "2", "1", "2", "1">>,
    <<"#", "D", "3", "2", "F", "2", "F">>,
    <<"#", "F", "F", "6", "F", "0", "0">>,
    <<"#", "0", "2", "7", "7", "B", "D">>,
    <<"#", "B", "D", "B", "D", "B", "D">>,
    <<"#", "9", "E", "9", "E", "9", "E">>,
    <<"f", "f", "f", "f", "f", "f">>,
    <<"#", "0", "A", "0", "A", "0", "A">>,
    <<"#", "0", "B", "0", "B", "0", "B">>,
    <<"#", "F", "F", "F", "F", "F", "E">>,
    <<"#", "G", "G", "G", "G", "G", "G">>,
    <<>>,
    <<"#", "1", "2", "3", "4", "5">>,
    <<"-", "1", "-", "1", "-", "1">>,
    <<"#", "1", "5", "6", "5", "c", "0">>,
    <<"#", "8", "0", "8", "0", "8", "0">>,
    <<"#", "0", "0", "F", "F", "0", "0">>>>

NumColors == 20

Colors == {ColorList[i] : i \in 1..(IF NumColors < Len(ColorList) THEN NumColors ELSE Len(ColorList))}

White == ColorList[2]
Black == ColorList[1]

\* contrast_ratio(color1, color2)
ContrastRatio ==
  /\ pc = "ready"
  /\ function' = "contrast_ratio"
  /\ \E color1 \in Colors, color2 \in Colors :
       \E r \in {contrast_run(color1, color2)} :
         /\ args' = <<color1, color2>>
         /\ frame' = IF r.ok THEN r.frame ELSE NoFrame
         /\ result' = Outcome(r)
         /\ pc' = IF r.ok THEN "returned" ELSE "raised"
  /\ UNCHANGED out

\* the backgrounds check_compliance is called with, besides the foreground
\* itself
CheckBackgrounds == {White, Black, colors.Primary, ColorList[16]}

MinRatios == {F1_0, F3_0, F4_5, F21_0}

\* keyword arguments of a call of check_compliance: min_ratio and
\* description may be left out
CheckArgs ==
  LET fb == {[foreground |-> f, background |-> b] :
               f \in Colors, b \in CheckBackgrounds} \cup
            {[foreground |-> f, background |-> f] : f \in Colors}
  IN  fb \cup
      {[foreground |-> a.foreground, background |-> a.background, min_ratio |-> m] :
         a \in fb, m \in MinRatios} \cup
      {[foreground |-> a.foreground, background |-> a.background, min_ratio |-> m,
        description |-> "Text"] : a \in fb, m \in {F4_5}}

\* check_compliance(**kw)
CheckCompliance ==
  /\ pc = "ready"
  /\ function' = "check_compliance"
  /\ \E kw \in CheckArgs :
       \E min_ratio \in {IF "min_ratio" \in DOMAIN kw
                         THEN kw.min_ratio ELSE DefaultMinRatio},
          description \in {IF "description" \in DOMAIN kw
                           THEN kw.description ELSE DefaultDescription} :
           \E r \in {check_compliance(kw.foreground, kw.background, min_ratio,
                                      description)} :
             /\ args' = kw
             /\ frame' = IF r.ok
                         THEN [ratio |-> r.ratio, compliant |-> r.val,
                               min_ratio |-> min_ratio, description |-> description]
                         ELSE NoFrame
             /\ result' = Outcome(r)
             /\ out' = out \o r.printed
             /\ pc' = IF r.ok THEN "returned" ELSE "raised"

\* main(), up to its first check
MainStart ==
  /\ pc = "ready"
  /\ function' = "main"
  /\ args' = <<>>
  /\ frame' = [all_compliant |-> TRUE, i |-> 0]
  /\ out' = out \o MainHeader
  /\ pc' = "main"
  /\ UNCHANGED result

\* main(): the next check of the list
MainCheck ==
  /\ pc = "main"
  /\ frame.i < Len(MainChecks)
  /\ \E r \in {main_check(frame)} :
       /\ out' = out \o r.printed
       /\ frame' = IF r.ok THEN r.frame ELSE frame
       /\ pc' = IF r.ok THEN "main" ELSE "raised"
       /\ result' = IF r.ok THEN result ELSE Outcome(r)
  /\ UNCHANGED <<function, args>>

\* main(): the banner, the reference block, the return
MainFinish ==
  /\ pc = "main"
  /\ frame.i = Len(MainChecks)
  /\ out' = out \o MainFooter(frame.all_compliant)
  /\ result' = Return(frame.all_compliant)
  /\ pc' = "returned"
  /\ UNCHANGED <<function, args, frame>>

Next == ContrastRatio \/ CheckCompliance \/ MainStart \/ MainCheck \/ MainFinish

Spec == Init /\ [][Next]_vars

(***************************************************************************)
(* Properties of contrast_ratio, check_compliance and main, over Spec       *)
(***************************************************************************)
HexChars == {"0", "1", "2", "3", "4", "5", "6", "7", "8", "9",
             "a", "b", "c", "d", "e", "f", "A", "B", "C", "D", "E", "F"}

\* a valid hex colour: exactly six hex digits, after one optional '#'
IsValidHexColor(s) ==
  \/ Len(s) = 6 /\ \A i \in 1..6 : s[i] \in HexChars
  \/ Len(s) = 7 /\ s[1] = "#" /\ \A i \in 2..7 : s[i] \in HexChars

\* the threshold a call of check_compliance with the keyword arguments kw uses
ThresholdOf(kw) == IF "min_ratio" \in DOMAIN kw THEN kw.min_ratio ELSE Dec[45, 10]

FNeg(a) == IF IsZero[a] THEN a ELSE [a EXCEPT !.s = 1 - a.s]

\* |a - b| <= tol
Within(a, b, tol) == FLe[FAdd[a, FNeg(b)], tol] /\ FLe[FAdd[b, FNeg(a)], tol]

ContrastReturned ==
  /\ function = "contrast_ratio"
  /\ pc = "returned"
  /\ IsValidHexColor(args[1])
  /\ IsValidHexColor(args[2])

\* C1: for valid colours A and B, contrast_ratio(A, B) is (lighter + 0.05) /
\* (darker + 0.05) with lighter the max and darker the min of the two
\* luminances, and equals contrast_ratio(B, A).
C1_Symmetric ==
  ContrastReturned =>
    /\ result = contrast_ratio(args[2], args[1])
    /\ result.val = FDiv[FAdd[FMax[frame.lum1, frame.lum2], Dec[5, 100]],
                      FAdd[FMin[frame.lum1, frame.lum2], Dec[5, 100]]]

\* contrast_ratio returned for a first colour darker than the second
C1_Witness == ContrastReturned /\ FLt[frame.lum1, frame.lum2]

\* C4: check_compliance returns TRUE exactly when contrast_ratio(foreground,
\* background) >= min_ratio, equality included, and the threshold is 4.5
\* when min_ratio is not passed.
C4_VerdictIsGe ==
  (function = "check_compliance" /\ pc = "returned") =>
    result.val = (FCmp[contrast_ratio(args.foreground, args.background).val,
                    ThresholdOf(args)] \in {0, 1})

\* check_compliance returned TRUE for a ratio equal to the threshold
C4_Witness ==
  /\ function = "check_compliance"
  /\ pc = "returned"
  /\ FCmp[frame.ratio, frame.min_ratio] = 0
  /\ result.val

\* the result lines among the lines printed
ResultLines(o) == SelectSeq(o, LAMBDA l : l.kind = "result")

\* the verdict of check number j of main's list
Verdict(j) ==
  check_compliance(colors[MainChecks[j].fg], colors[MainChecks[j].bg],
                   MainChecks[j].min, MainChecks[j].description).val

Printed(o, line) == \E j \in 1..Len(o) : o[j] = line

\* C5: main runs the checks of its list in order, each once and each
\* printing one line whatever the earlier verdicts were; all_compliant is
\* the AND of the verdicts so far, main returns it after the last check,
\* and prints the failure banner when it is false.
C5_MainRunsEveryCheck ==
  function = "main" =>
    /\ pc \in {"main", "returned"}
    /\ Len(ResultLines(out)) = frame.i
    /\ \A j \in 1..frame.i :
         /\ ResultLines(out)[j].description = MainChecks[j].description
         /\ ResultLines(out)[j].status = IF Verdict(j) THEN "PASS" ELSE "FAIL"
    /\ frame.all_compliant = (\A j \in 1..frame.i : Verdict(j))
    /\ pc = "returned" =>
         /\ frame.i = Len(MainChecks)
         /\ result = Return(\A j \in 1..Len(MainChecks) : Verdict(j))
         /\ ~result.val => Printed(out, FailedBanner[1]) /\ ~Printed(out, PassedBanner[1])

\* main returned FALSE, and a check passed after a check had failed
C5_Witness ==
  /\ function = "main"
  /\ pc = "returned"
  /\ ~result.val
  /\ \E a \in 1..Len(ResultLines(out)), b \in 1..Len(ResultLines(out)) :
       /\ a < b
       /\ ResultLines(out)[a].status = "FAIL"
       /\ ResultLines(out)[b].status = "PASS"

\* C6: when hex_to_rgb raises for an argument, contrast_ratio and
\* check_compliance raise the same exception; check_compliance prints no
\* line and returns no verdict.
C6_ErrorPropagates ==
  /\ (function = "contrast_ratio"
        /\ \E i \in 1..2 : ~hex_to_rgb(args[i]).ok) =>
       pc = "raised" /\ result = ValueError /\ frame = NoFrame
  /\ (function = "check_compliance"
        /\ (~hex_to_rgb(args.foreground).ok
              \/ ~hex_to_rgb(args.background).ok)) =>
       pc = "raised" /\ result = ValueError /\ out = <<>> /\ frame = NoFrame

\* check_compliance raised because of its background alone
C6_Witness ==
  /\ function = "check_compliance"
  /\ pc = "raised"
  /\ hex_to_rgb(args.foreground).ok
  /\ ~hex_to_rgb(args.background).ok

\* C7: for a valid colour A, contrast_ratio(A, A) is exactly 1.0, and
\* check_compliance(A, A, t) returns FALSE for every threshold t > 1.0.
C7_SameColourIsOne ==
  /\ (function = "contrast_ratio" /\ IsValidHexColor(args[1])
        /\ args[1] = args[2]) =>
       pc = "returned" /\ result.val = FromInt[1]
  /\ (function = "check_compliance" /\ IsValidHexColor(args.foreground)
        /\ args.foreground = args.background
        /\ FGt[ThresholdOf(args), FromInt[1]]) =>
       pc = "returned" /\ result.val = FALSE

\* check_compliance returned FALSE for a colour on itself and a threshold
\* above 1.0
C7_Witness ==
  /\ function = "check_compliance"
  /\ pc = "returned"
  /\ IsValidHexColor(args.foreground)
  /\ args.foreground = args.background
  /\ FGt[frame.min_ratio, FromInt[1]]
  /\ frame.ratio = FromInt[1]
  /\ ~result.val

\* C8: for valid colours both luminances are in [0.0, 1.0], lighter + 0.05
\* is at least darker + 0.05, and the ratio is in [1.0, 21.0].
C8_Ranges ==
  ContrastReturned =>
    /\ \A l \in {frame.lum1, frame.lum2} : FLe[FZero, l] /\ FLe[l, FromInt[1]]
    /\ FGe[FAdd[frame.lighter, Dec[5, 100]], FAdd[frame.darker, Dec[5, 100]]]
    /\ FLe[FromInt[1], result.val]
    /\ FLe[result.val, FromInt[21]]

\* contrast_ratio returned a ratio strictly inside the range, for two
\* luminances strictly inside theirs
C8_Witness ==
  /\ ContrastReturned
  /\ \A l \in {frame.lum1, frame.lum2} : FLt[FZero, l] /\ FLt[l, FromInt[1]]
  /\ FLt[FromInt[1], result.val]
  /\ FLt[result.val, FromInt[21]]

\* C9: against white, a valid foreground of smaller luminance has a
\* strictly larger ratio than any valid foreground of larger luminance.
C9_MonotonicOnWhite ==
  (ContrastReturned /\ args[2] = White) =>
    \A F2 \in {c \in Colors : IsValidHexColor(c)} :
      \A r2 \in {contrast_run(F2, White)} :
        FLt[frame.lum1, r2.frame.lum1] => FGt[result.val, r2.val]

\* contrast_ratio returned against white for a foreground that is neither
\* black nor white, with lighter and darker foregrounds to compare with
C9_Witness ==
  /\ ContrastReturned
  /\ args[2] = White
  /\ FLt[FZero, frame.lum1]
  /\ FLt[frame.lum1, frame.lum2]
  /\ \E F2 \in {c \in Colors : IsValidHexColor(c)} :
       \A r2 \in {contrast_run(F2, White)} :
         FLt[frame.lum1, r2.frame.lum1] /\ FLt[r2.frame.lum1, frame.lum2]

\* C10: luminance((0, 0, 0)) is exactly 0.0 and luminance((255, 255, 255))
\* exactly 1.0; contrast_ratio("#000000", "#FFFFFF") is 1.05 / 0.05 = 21.0
\* within 1e-6, and no valid pair has a larger ratio.
C10_BlackOnWhite ==
  /\ (function = "contrast_ratio" /\ args = <<Black, White>>) =>
       /\ pc = "returned"
       /\ frame.lum1 = luminance(<<0, 0, 0>>) /\ frame.lum1 = FZero
       /\ frame.lum2 = luminance(<<255, 255, 255>>) /\ frame.lum2 = FromInt[1]
       /\ Within(result.val, FromInt[21], Dec[1, 1000000])
       /\ Within(result.val, FDiv[Dec[105, 100], Dec[5, 100]], Dec[1, 1000000])
  /\ ContrastReturned => FLe[result.val, contrast_ratio(Black, White).val]

\* contrast_ratio("#000000", "#FFFFFF") returned
C10_Witness ==
  /\ function = "contrast_ratio"
  /\ args = <<Black, White>>
  /\ pc = "returned"
  /\ result.val = FromInt[21]

(***************************************************************************)
(* hex_to_rgb on its own, over every short string of an alphabet that has  *)
(* '#', a decimal digit, a hex letter in each case, a letter that is no    *)
(* hex digit, and a sign.                                                  *)
(***************************************************************************)
MaxHashes == 2
MaxBody == 7

BodyChars == {"1", "c", "C", "G", "-"}

\* h times '#'
Hashes(h) == [i \in 1..h |-> "#"]

\* hex_to_rgb(hex_color)
HexToRgb(hex_color) ==
  /\ function' = "hex_to_rgb"
  /\ args' = <<hex_color>>
  /\ \E r \in {hex_to_rgb(hex_color)} :
       /\ result' = r
       /\ pc' = IF r.ok THEN "returned" ELSE "raised"
  /\ UNCHANGED <<frame, out>>

\* hex_to_rgb on the strings of the alphabet
ParseGenerated ==
  /\ pc = "ready"
  /\ \E h \in 0..MaxHashes, n \in 0..MaxBody :
       \E body \in [1..n -> BodyChars] :
         \E hex_color \in {Hashes(h) \o body} : HexToRgb(hex_color)

\* hex_to_rgb on the colours of ColorList
ParseListed ==
  /\ pc = "ready"
  /\ \E i \in 1..Len(ColorList) : HexToRgb(ColorList[i])

NextParse == ParseGenerated \/ ParseListed

SpecParse == Init /\ [][NextParse]_vars

(***************************************************************************)
(* Properties of hex_to_rgb, over SpecParse                                 *)
(***************************************************************************)
\* C2: hex_to_rgb raises, and returns no tuple, for every input that is not
\* exactly six hex digits after one optional '#'.
C2_InvalidInputRaises ==
  (function = "hex_to_rgb" /\ ~IsValidHexColor(args[1])) =>
    pc = "raised" /\ result = ValueError

\* the integer two hex digits denote
PairValue(s, i) == 16 * HexVal[s[i]] + HexVal[s[i + 1]]

\* the six digits of a valid hex colour
DigitsOf(s) == IF Len(s) = 7 THEN Tail(s) ELSE s

\* C3: for six hex digits with or without one '#', hex_to_rgb returns the
\* values of the digit pairs at offsets 0, 2 and 4; and every tuple it
\* returns has its three channels in 0..255.
C3_ChannelsInRange ==
  function = "hex_to_rgb" =>
    /\ IsValidHexColor(args[1]) =>
         /\ pc = "returned"
         /\ result.val = <<PairValue(DigitsOf(args[1]), 1),
                        PairValue(DigitsOf(args[1]), 3),
                        PairValue(DigitsOf(args[1]), 5)>>
    /\ pc = "returned" => \A i \in 1..3 : result.val[i] \in 0..255

====
